---------------------------- MODULE Spec2Model ----------------------------
(***************************************************************************)
(* A model of demo.py: the shared `state` mapping with one                 *)
(* asyncio.Condition per message type, the decoder that writes a payload   *)
(* and notifies, the wait primitives await_message / await_all_messages /  *)
(* await_any_messages, and the two consumers started by main().            *)
(*                                                                         *)
(* The program runs on one asyncio event loop.  The loop is modelled as    *)
(* asyncio runs it: a FIFO queue of ready handles (`ready`), run in        *)
(* iterations of `ntodo` handles; I/O events and due timers are appended   *)
(* at the start of an iteration.  One action runs one handle, that is one  *)
(* task from its resumption to its next suspension point.                  *)
(*                                                                         *)
(* asyncio.wait is modelled as in Python 3.7 to 3.10, where it wraps the   *)
(* coroutines it is handed in tasks (the program hands it coroutines).     *)
(***************************************************************************)
EXTENDS Naturals, Sequences, FiniteSets, TLC

\* ------------------------------------------------------------- bounds
\* Datagrams the transport delivers in one behaviour.
MaxDatagrams == 2
\* Datagrams the transport may deliver within one loop iteration.
MaxBurst == 2

\* ---------------------------------------------------------- constants
\* The values message_monitor waits for.
TargetA == 512
TargetB == 16

\* ------------------------------------------------------------ payloads
Topics == {"a", "b", "c"}

\* A payload is what json.loads made of the message's 'payload': a mapping
\* from sub-key to number (all sub-keys carry `val`, as the generator sends
\* them), or a bare number.
MapPayload(v) == [shape |-> "map", val |-> v]

NumPayload(v) == [shape |-> "num", val |-> v]

InitialPayload == MapPayload(0)

\* A datagram, by what data.decode() and json.loads make of it.
Obj(t, p) == [shape |-> "obj", type |-> t, payload |-> p]

Unparsable(s) == [shape |-> s, type |-> "", payload |-> NumPayload(0)]

Datagrams ==
    { Obj("a", MapPayload(TargetA)), Obj("a", MapPayload(1)),
      Obj("b", MapPayload(TargetB)), Obj("c", MapPayload(1)),
      Obj("a", NumPayload(5)), Obj("x", MapPayload(1)),
      Unparsable("notjson"), Unparsable("notype") }

\* payload[key]: a mapping yields its value, anything else raises.
Subscriptable(p) == p.shape = "map"

\* ---------------------------------------------------------------- state
VARIABLES
    state,      \* topic -> current payload
    locked,     \* topic -> the condition's lock is held
    lockq,      \* topic -> handles of the tasks waiting for the lock
    condq,      \* topic -> waiter tasks inside cond.wait(), oldest first
    ready,      \* the loop's queue of ready handles
    ntodo,      \* handles left to run in the current loop iteration
    sent,       \* datagrams delivered so far
    decoders,   \* the protocol_x_decoder tasks, in creation order
    waiters,    \* the await_message tasks, by id <<client, call, index>>
    clients,    \* the consumer tasks
    timer,      \* the deadline of message_monitor
    calls,      \* history: one record per await_all/await_any call
    dispatched, \* history: topic -> payloads written by a decoder, in order
    delivered   \* history: datagrams handed to datagram_received, in order

vars == <<state, locked, lockq, condq, ready, ntodo, sent, decoders,
          waiters, clients, timer, calls, dispatched, delivered>>

Handle(k, i) == [kind |-> k, id |-> i]

HeadIs(k) == ntodo > 0 /\ ready # <<>> /\ Head(ready).kind = k

\* The handle at the head has run and appended `hs`.
Ran(hs) ==
    /\ ready' = Tail(ready) \o hs
    /\ ntodo' = ntodo - 1


Range(q) == { q[i] : i \in DOMAIN q }

Without(q, e) == SelectSeq(q, LAMBDA y : y # e)

\* ------------------------------------------------- asyncio.Lock, Condition
\* Lock.acquire returns at once when the lock is free and nobody queues.
LockFree(t) == ~locked[t] /\ lockq[t] = <<>>

LockEntry(h) == [h |-> h, woken |-> FALSE]

\* Lock._wake_up_first: the first queued task is woken, once.
WakeUpFirst(q) ==
    IF q # <<>> /\ ~q[1].woken
    THEN [q |-> [q EXCEPT ![1].woken = TRUE], hs |-> <<q[1].h>>]
    ELSE [q |-> q, hs |-> <<>>]

\* The queue of a lock without the task that has just been handed the lock.
Dequeued(t, h) == SelectSeq(lockq[t], LAMBDA e : e.h # h)

\* Condition.wait suspends with the condition's lock still held.
wait_keeps_lock == FALSE

\* Condition.wait releases the condition's lock before it suspends.
wait_releases_lock == TRUE

\* Condition.notify: only the oldest waiter is woken.
notify_one(t) ==
    LET q == SelectSeq(condq[t], LAMBDA w : ~waiters[w].notified)
    IN  IF q = <<>> THEN <<>> ELSE <<q[1]>>

\* Every waiter in the condition's queue is scheduled, one notified already
\* a second time.
notify_again(t) == condq[t]

\* One condition for all topics: the waiters of every topic are woken.
notify_every_topic(t) ==
    SelectSeq(condq["a"] \o condq["b"] \o condq["c"],
              LAMBDA w : ~waiters[w].notified)

\* Condition.notify_all: the waiters whose future is not done yet, oldest
\* first; each gets its result set, which schedules its task.
notify_all(t) == SelectSeq(condq[t], LAMBDA w : ~waiters[w].notified)

\* ------------------------------------------------------------ histories
CallWaiters(c, k) == { w \in DOMAIN waiters : w[1] = c /\ w[2] = k }

\* A dispatch to topic t is recorded: in each waiter registered on t that
\* has seen none yet, and in each call none of whose waiters has finished.
SawDispatch(ws, t, n) ==
    [w \in DOMAIN ws |->
        IF w \in Range(condq[t]) /\ ws[w].saw = 0
        THEN [ws[w] EXCEPT !.saw = n] ELSE ws[w]]

TieDispatch(t) ==
    [k \in DOMAIN calls |->
        IF /\ calls[k].status = "active"
           /\ \A w \in CallWaiters(k[1], k[2]) : waiters[w].pc # "done"
           /\ \E w \in CallWaiters(k[1], k[2]) : w \in Range(condq[t])
        THEN [calls[k] EXCEPT !.tie = @ \cup {t}] ELSE calls[k]]

\* ------------------------------------------------------------ event loop
\* The sequences of at most n datagrams.
Bursts(n) == UNION { [1..k -> Datagrams] : k \in 0..n }

Min(x, y) == IF x < y THEN x ELSE y

\* BaseEventLoop._run_once, up to the point where it runs the ready
\* handles: the selector's read events, then the due timers, are appended
\* to the queue, and the iteration runs the handles queued by then.
run_once ==
    /\ ntodo = 0
    /\ \E burst \in Bursts(Min(MaxBurst, MaxDatagrams - sent)), fire \in BOOLEAN :
        /\ fire => timer = "armed"
        /\ ready' = ready
                \o [i \in 1..Len(burst) |-> Handle("read", burst[i])]
                \o (IF fire THEN <<Handle("timer", "monitor")>> ELSE <<>>)
        /\ ready' # <<>>
        /\ ntodo' = Len(ready')
        /\ sent' = sent + Len(burst)
        /\ timer' = IF fire THEN "queued" ELSE timer
    /\ UNCHANGED <<state, locked, lockq, condq, decoders, waiters, clients,
                   calls, dispatched, delivered>>

\* UDP_Decoder.datagram_received: data.decode() raises on bytes that are
\* not UTF-8 and the handle ends there; otherwise a task running the decoder
\* is created.  Datagrams enumerates text datagrams only, so the first branch
\* is kept for fidelity to the code and is not exercised.  The task that
\* create_task returns is dropped: nothing is added to its done callbacks
\* (`cbs`) and nothing awaits it.
datagram_received ==
    /\ HeadIs("read")
    /\ LET m == Head(ready).id IN
        /\ delivered' = Append(delivered, m)
        /\ IF m.shape = "notutf8"
           THEN /\ Ran(<<>>)
                /\ UNCHANGED decoders
           ELSE /\ decoders' = Append(decoders,
                        [msg |-> m, pc |-> "created", outcome |-> "pending",
                         cbs |-> <<>>])
                /\ Ran(<<Handle("decoder", Len(decoders) + 1)>>)
    /\ UNCHANGED <<state, locked, lockq, condq, sent, waiters, clients,
                   timer, calls, dispatched>>

\* ---------------------------------------------------------------- decoder
\* decoders.get(type_, decode_a): an unknown type falls back to a decoder.
decoder_or_default(type_) == IF type_ \in Topics THEN type_ ELSE "a"

\* decoders.get(type_): the decoder of a registered type, or None.
decoder_for(type_) == IF type_ \in Topics THEN type_ ELSE "none"

\* What json.loads and the two subscripts raise, "" when they pass.
parse_error(m) ==
    IF m.shape = "notjson" THEN "JSONDecodeError"
    ELSE IF m.shape = "notype" THEN "KeyError"
    ELSE ""

\* decode_a, decode_b, decode_c from `async with cond` on, the lock taken:
\* notify_all, then the lock is released.  ws is `waiters` with the
\* dispatch recorded.
Notify(n, t, ws) ==
    LET woken == notify_all(t)
        rel == WakeUpFirst(Dequeued(t, Handle("decoder", n)))
    IN  /\ waiters' = [w \in DOMAIN ws |->
                IF w \in Range(woken)
                THEN [ws[w] EXCEPT !.notified = TRUE] ELSE ws[w]]
        /\ decoders' = [decoders EXCEPT ![n].pc = "done", ![n].outcome = "ok"]
        /\ locked' = [locked EXCEPT ![t] = FALSE]
        /\ lockq' = [lockq EXCEPT ![t] = rel.q]
        /\ Ran([i \in 1..Len(woken) |-> Handle("waiter", woken[i])] \o rel.hs
                \o decoders[n].cbs)

\* The decoder task ends with an exception, every lock held: a dispatcher
\* that takes the conditions' locks before it parses, and fails inside.
raise_holding_locks(n, exc) ==
    /\ decoders' = [decoders EXCEPT ![n].pc = "done", ![n].outcome = exc]
    /\ locked' = [t \in Topics |-> TRUE]
    /\ Ran(decoders[n].cbs)
    /\ UNCHANGED <<state, dispatched, calls, waiters, lockq>>

\* The decoder task ends with an exception: the task's done callbacks are
\* scheduled, and the exception stays in the task.
Raise(n, exc) ==
    /\ decoders' = [decoders EXCEPT ![n].pc = "done", ![n].outcome = exc]
    /\ Ran(decoders[n].cbs)
    /\ UNCHANGED <<state, dispatched, calls, waiters, locked, lockq>>

\* protocol_x_decoder, one run of its task.
protocol_x_decoder ==
    /\ HeadIs("decoder")
    /\ LET n == Head(ready).id
           m == decoders[n].msg
           t == decoder_for(m.type)
       IN
        IF decoders[n].pc = "acquiring"
        THEN \* handed the lock by the task that released it
             /\ Notify(n, t, waiters)
             /\ UNCHANGED <<state, dispatched, calls>>
        ELSE IF parse_error(m) # ""
        THEN Raise(n, parse_error(m))
        ELSE IF t = "none"
        THEN Raise(n, "ValueError")
        ELSE /\ state' = [state EXCEPT ![t] = m.payload]
             /\ dispatched' = [dispatched EXCEPT ![t] = Append(@, m.payload)]
             /\ calls' = TieDispatch(t)
             /\ IF LockFree(t)
                THEN Notify(n, t, SawDispatch(waiters, t, Len(dispatched[t]) + 1))
                ELSE /\ waiters' = SawDispatch(waiters, t, Len(dispatched[t]) + 1)
                     /\ decoders' = [decoders EXCEPT ![n].pc = "acquiring"]
                     /\ lockq' = [lockq EXCEPT ![t] =
                            Append(@, LockEntry(Handle("decoder", n)))]
                     /\ Ran(<<>>)
                     /\ UNCHANGED locked
    /\ UNCHANGED <<condq, sent, clients, timer, delivered>>

\* ---------------------------------------------------------- await_message
NewWaiter(name, cb) ==
    [name |-> name, pc |-> "created", notified |-> FALSE, cb |-> cb,
     outcome |-> "pending", saw |-> 0, observed |-> InitialPayload]

\* state[f'{message}_event'] raises KeyError for a name that is no topic.
has_condition(name) == name \in Topics

\* The done callbacks of a finished await_message task, scheduled by the
\* loop: asyncio.wait's _on_completion or gather's _done_callback.
DoneCallbacks(w) ==
    IF waiters[w].cb = "wait" THEN <<Handle("on_completion", w)>>
    ELSE IF waiters[w].cb = "gather" THEN <<Handle("gather_cb", w)>>
    ELSE <<>>

\* `if state[message] is unset: await cond.wait()`: a topic that was set
\* already is returned at once.
suspend_unless_set(w, t) ==
    LET rel == WakeUpFirst(Dequeued(t, Handle("waiter", w))) IN
    /\ waiters' = [waiters EXCEPT
            ![w].pc = IF state[t] = InitialPayload THEN "waiting" ELSE "done",
            ![w].outcome = IF state[t] = InitialPayload THEN @ ELSE "returned",
            ![w].observed = state[t]]
    /\ condq' = [condq EXCEPT ![t] =
            IF state[t] = InitialPayload THEN Append(@, w) ELSE @]
    /\ locked' = [locked EXCEPT ![t] = FALSE]
    /\ lockq' = [lockq EXCEPT ![t] = rel.q]
    /\ Ran(rel.hs \o (IF state[t] = InitialPayload THEN <<>>
                                                     ELSE DoneCallbacks(w)))

\* cond.wait() from the point where the task holds the lock: the lock is
\* released, the task joins the condition's waiters and suspends.
Suspend(w, t) ==
    LET rel == WakeUpFirst(Dequeued(t, Handle("waiter", w))) IN
    /\ waiters' = [waiters EXCEPT ![w].pc = "waiting"]
    /\ condq' = [condq EXCEPT ![t] = Append(@, w)]
    /\ locked' = [locked EXCEPT ![t] = ~wait_releases_lock]
    /\ lockq' = [lockq EXCEPT ![t] =
            IF wait_releases_lock THEN rel.q
            ELSE Dequeued(t, Handle("waiter", w))]
    /\ Ran(IF wait_releases_lock THEN rel.hs ELSE <<>>)

\* The end of await_message, the lock taken again after the wait: the
\* `async with` block is left, which releases the lock, and the task
\* returns its message name.
Return(w, t) ==
    LET rel == WakeUpFirst(Dequeued(t, Handle("waiter", w))) IN
    /\ waiters' = [waiters EXCEPT ![w].pc = "done", ![w].outcome = "returned",
                                  ![w].observed = state[t]]
    /\ locked' = [locked EXCEPT ![t] = FALSE]
    /\ lockq' = [lockq EXCEPT ![t] = rel.q]
    /\ Ran(rel.hs \o DoneCallbacks(w))

\* The task waits for the lock.
Queue(w, t, pc) ==
    /\ waiters' = [waiters EXCEPT ![w].pc = pc]
    /\ lockq' = [lockq EXCEPT ![t] = Append(@, LockEntry(Handle("waiter", w)))]
    /\ Ran(<<>>)
    /\ UNCHANGED locked

\* await_message, one run of its task.
await_message ==
    /\ HeadIs("waiter")
    /\ LET w == Head(ready).id
           t == waiters[w].name
           pc == waiters[w].pc
       IN
        IF pc = "created" /\ ~has_condition(t)
        THEN /\ waiters' = [waiters EXCEPT ![w].pc = "done",
                                           ![w].outcome = "KeyError"]
             /\ Ran(DoneCallbacks(w))
             /\ UNCHANGED <<locked, lockq, condq>>
        ELSE IF pc = "created"
        THEN IF LockFree(t)
             THEN Suspend(w, t)
             ELSE Queue(w, t, "acquiring") /\ UNCHANGED condq
        ELSE IF pc = "acquiring"
        THEN Suspend(w, t)
        ELSE IF pc = "waiting"
        THEN /\ condq' = [condq EXCEPT ![t] = Without(@, w)]
             /\ IF LockFree(t)
                THEN Return(w, t)
                ELSE Queue(w, t, "reacquiring")
        ELSE \* pc = "reacquiring"
             Return(w, t) /\ UNCHANGED condq
    /\ UNCHANGED <<state, sent, decoders, clients, timer, calls, dispatched,
                   delivered>>


\* ------------------------------------------------ the calls of the clients
NewClient(op, names) ==
    [op |-> op, names |-> names, pc |-> "created", call |-> 0, fut |-> "none",
     mustCancel |-> FALSE, outcome |-> "running", arrived |-> {},
     nfinished |-> 0]

NewCall(op, names) ==
    [op |-> op, names |-> names,
     began |-> [t \in Topics |-> Len(dispatched[t])],
     status |-> "active", result |-> {}, tie |-> {}]

Identity(n) == [i \in 1..n |-> i]

Perms(n) == { p \in [1..n -> 1..n] : \A i, j \in 1..n : p[i] = p[j] => i = j }

\* asyncio.wait wraps set(fs) in tasks, so the tasks of a call take their
\* first run in the order in which a set of coroutine objects happens to
\* be iterated.  The first runs are consecutive handles of one loop
\* iteration; those of tasks for distinct topics touch distinct conditions
\* and leave the same state in any order, so one order stands for all.
Orders(names) ==
    IF /\ \A i \in DOMAIN names : names[i] \in Topics
       /\ \A i, j \in DOMAIN names : names[i] = names[j] => i = j
    THEN { Identity(Len(names)) }
    ELSE Perms(Len(names))

\* tasks = [await_message(x) for x in messages], each wrapped in a task.
Spawned(ws, c, k, names, cb) ==
    [w \in { <<c, k, i>> : i \in 1..Len(names) } |-> NewWaiter(names[w[3]], cb)]
        @@ ws

FirstSteps(c, k, order) ==
    [j \in 1..Len(order) |-> Handle("waiter", <<c, k, order[j]>>)]

\* _wait's `finally`: _on_completion is removed from the call's tasks.
Detached(ws, c, k) ==
    [w \in DOMAIN ws |->
        IF w[1] = c /\ w[2] = k /\ ws[w].cb = "wait"
        THEN [ws[w] EXCEPT !.cb = "none"] ELSE ws[w]]

Closed(cs, c, k, status, result) ==
    IF <<c, k>> \in DOMAIN cs
    THEN [cs EXCEPT ![<<c, k>>].status = status, ![<<c, k>>].result = result]
    ELSE cs

\* Only one of the tasks that are done is reported.
first_completed(c, k) ==
    LET done == { w \in CallWaiters(c, k) : waiters[w].pc = "done" }
    IN  IF done = {} THEN {} ELSE { CHOOSE w \in done : TRUE }

\* The tasks of the client's earlier calls are reported as well.
completed_any_call(c, k) ==
    { w \in DOMAIN waiters : w[1] = c /\ waiters[w].pc = "done" }

\* done, _ = await asyncio.wait(...): the call's tasks that are done when
\* the caller runs again.
completed(c, k) == { w \in CallWaiters(c, k) : waiters[w].pc = "done" }

\* The exceptions of the tasks are never looked at.
never_raises(c, k) == FALSE

\* task.result() raises the exception of a task that failed.
Raises(c, k) == \E w \in completed(c, k) : waiters[w].outcome = "KeyError"

completed_messages(c, k) == { waiters[w].name : w \in completed(c, k) }

\* await_any_messages up to its suspension in asyncio.wait; the call before
\* it, if any, returned `arrived`.
BeginAny(c, names, order, arrived) ==
    LET k == clients[c].call + 1 IN
    /\ clients' = [clients EXCEPT ![c].pc = "suspended", ![c].call = k,
                                  ![c].fut = "pending", ![c].arrived = arrived]
    /\ waiters' = Spawned(Detached(waiters, c, k - 1), c, k, names, "wait")
    /\ calls' = (<<c, k>> :> NewCall("any", names))
                    @@ Closed(calls, c, k - 1, "returned", arrived)
    /\ Ran(FirstSteps(c, k, order))

\* The client task ends; its current call ended with `status`.
EndTask(c, outcome, status, result) ==
    /\ clients' = [clients EXCEPT ![c].pc = "done", ![c].outcome = outcome,
                                  ![c].arrived = result]
    /\ waiters' = Detached(waiters, c, clients[c].call)
    /\ calls' = Closed(calls, c, clients[c].call, status, result)
    /\ Ran(<<>>)

RunsClient(c, op) ==
    /\ HeadIs("client")
    /\ Head(ready).id = c
    /\ c \in DOMAIN clients
    /\ clients[c].op = op

\* asyncio.wait's _on_completion(f): the first completion sets the call's
\* waiter future, which schedules the caller.
on_completion ==
    /\ HeadIs("on_completion")
    /\ LET w == Head(ready).id
           c == w[1]
       IN
        IF clients[c].call = w[2] /\ clients[c].fut = "pending"
        THEN /\ clients' = [clients EXCEPT ![c].fut = "result"]
             /\ Ran(<<Handle("client", c)>>)
        ELSE /\ Ran(<<>>)
             /\ UNCHANGED clients
    /\ UNCHANGED <<state, locked, lockq, condq, sent, decoders, waiters,
                   timer, calls, dispatched, delivered>>

\* The outer future is set when the first child has finished.
first_finished(nfinished, nfuts) == nfinished >= 1

\* gather's `nfinished == nfuts`: every child has finished.
all_finished(nfinished, nfuts) == nfinished = nfuts

\* gather's _done_callback(fut): the first exception, or the last result,
\* sets the outer future, which schedules the caller.
gather_done_callback ==
    /\ HeadIs("gather_cb")
    /\ LET w == Head(ready).id
           c == w[1]
           n == clients[c].nfinished + 1
       IN
        IF clients[c].fut # "pending"
        THEN /\ clients' = [clients EXCEPT ![c].nfinished = n]
             /\ Ran(<<>>)
        ELSE IF waiters[w].outcome = "KeyError"
        THEN /\ clients' = [clients EXCEPT ![c].nfinished = n,
                                           ![c].fut = "exception"]
             /\ Ran(<<Handle("client", c)>>)
        ELSE IF all_finished(n, Len(clients[c].names))
        THEN /\ clients' = [clients EXCEPT ![c].nfinished = n,
                                           ![c].fut = "result"]
             /\ Ran(<<Handle("client", c)>>)
        ELSE /\ clients' = [clients EXCEPT ![c].nfinished = n]
             /\ Ran(<<>>)
    /\ UNCHANGED <<state, locked, lockq, condq, sent, decoders, waiters,
                   timer, calls, dispatched, delivered>>


\* ------------------------------------------------------------ the clients
\* await_all_messages, run by a task of its own: gather wraps each
\* await_message in a task, in argument order; gather() of nothing is done
\* at once.
await_all_messages ==
    /\ RunsClient("caller", "all")
    /\ LET c == "caller"
           names == clients[c].names
       IN
        IF clients[c].pc = "created" /\ names = <<>>
        THEN /\ clients' = [clients EXCEPT ![c].pc = "done", ![c].call = 1,
                                           ![c].outcome = "returned"]
             /\ calls' = (<<c, 1>> :> [NewCall("all", names) EXCEPT
                                            !.status = "returned"]) @@ calls
             /\ Ran(<<>>)
             /\ UNCHANGED waiters
        ELSE IF clients[c].pc = "created"
        THEN /\ clients' = [clients EXCEPT ![c].pc = "suspended", ![c].call = 1,
                                           ![c].fut = "pending"]
             /\ waiters' = Spawned(waiters, c, 1, names, "gather")
             /\ calls' = (<<c, 1>> :> NewCall("all", names)) @@ calls
             /\ Ran(FirstSteps(c, 1, Identity(Len(names))))
        ELSE IF clients[c].fut = "exception"
        THEN EndTask(c, "KeyError", "error", {})
        ELSE EndTask(c, "returned", "returned", Range(names))
    /\ UNCHANGED <<state, locked, lockq, condq, sent, decoders, timer,
                   dispatched, delivered>>

\* await_any_messages, run by a task of its own: asyncio.wait refuses an
\* empty set, and wraps the coroutines in tasks in the order of a set.
await_any_messages ==
    /\ RunsClient("caller", "any")
    /\ LET c == "caller"
           names == clients[c].names
       IN
        IF clients[c].pc = "created" /\ names = <<>>
        THEN /\ clients' = [clients EXCEPT ![c].pc = "done", ![c].call = 1,
                                           ![c].outcome = "ValueError"]
             /\ calls' = (<<c, 1>> :> [NewCall("any", names) EXCEPT
                                            !.status = "error"]) @@ calls
             /\ Ran(<<>>)
             /\ UNCHANGED waiters
        ELSE IF clients[c].pc = "created"
        THEN \E order \in Orders(names) : BeginAny(c, names, order, {})
        ELSE IF Raises(c, 1)
        THEN EndTask(c, "KeyError", "error", {})
        ELSE EndTask(c, "returned", "returned", completed_messages(c, 1))
    /\ UNCHANGED <<state, locked, lockq, condq, sent, decoders, timer,
                   dispatched, delivered>>

\* A notifier that consumes what it reports: the payloads of the topics
\* that arrived are reset.
notifier_consuming ==
    /\ RunsClient("notifier", "notifier")
    /\ LET c == "notifier"
           k == clients[c].call
       IN
        IF clients[c].pc = "created"
        THEN /\ \E order \in Orders(clients[c].names) :
                    BeginAny(c, clients[c].names, order, {})
             /\ UNCHANGED state
        ELSE IF Raises(c, k)
        THEN EndTask(c, "KeyError", "error", {}) /\ UNCHANGED state
        ELSE /\ \E order \in Orders(clients[c].names) :
                    BeginAny(c, clients[c].names, order, completed_messages(c, k))
             /\ state' = [t \in Topics |->
                    IF t \in completed_messages(c, k) THEN InitialPayload
                    ELSE state[t]]
    /\ UNCHANGED <<locked, lockq, condq, sent, decoders, timer,
                   dispatched, delivered>>

\* message_arrival_notifier: await_any_messages('a', 'b', 'c') for ever.
message_arrival_notifier ==
    /\ RunsClient("notifier", "notifier")
    /\ LET c == "notifier"
           k == clients[c].call
       IN
        IF clients[c].pc = "created"
        THEN \E order \in Orders(clients[c].names) : BeginAny(c, clients[c].names, order, {})
        ELSE IF Raises(c, k)
        THEN EndTask(c, "KeyError", "error", {})
        ELSE \E order \in Orders(clients[c].names) :
                BeginAny(c, clients[c].names, order, completed_messages(c, k))
    /\ UNCHANGED <<state, locked, lockq, condq, sent, decoders, timer,
                   dispatched, delivered>>

\* The monitor's test raises when a payload cannot be subscripted.
\*     state['a']['1'] == 512 and state['b']['3'] == 16
test_raises ==
    \/ ~Subscriptable(state["a"])
    \/ state["a"].val = TargetA /\ ~Subscriptable(state["b"])

test == state["a"].val = TargetA /\ state["b"].val = TargetB

\* async_timeout's exit: the deadline's handle is cancelled.
Disarmed == IF timer \in {"armed", "queued"} THEN "cancelled" ELSE timer

\* message_monitor: await_any_messages('a', 'b') until the test holds, for
\* at most 2 seconds.
message_monitor ==
    /\ RunsClient("monitor", "monitor")
    /\ LET c == "monitor"
           k == clients[c].call
       IN
        IF clients[c].pc = "created"
        THEN /\ timer' = "armed"
             /\ \E order \in Orders(clients[c].names) : BeginAny(c, clients[c].names, order, {})
        ELSE IF clients[c].mustCancel \/ clients[c].fut = "cancelled"
        THEN \* CancelledError, which the timeout turns into TimeoutError
             /\ EndTask(c, "failed", "cancelled", {})
             /\ UNCHANGED timer
        ELSE IF Raises(c, k)
        THEN /\ EndTask(c, "KeyError", "error", {})
             /\ timer' = Disarmed
        ELSE IF test_raises
        THEN /\ EndTask(c, "TypeError", "returned", completed_messages(c, k))
             /\ timer' = Disarmed
        ELSE IF test
        THEN /\ EndTask(c, "met", "returned", completed_messages(c, k))
             /\ timer' = Disarmed
        ELSE /\ \E order \in Orders(clients[c].names) :
                    BeginAny(c, clients[c].names, order, completed_messages(c, k))
             /\ UNCHANGED timer
    /\ UNCHANGED <<state, locked, lockq, condq, sent, decoders, dispatched,
                   delivered>>

\* async_timeout's _cancel_task, run when the deadline is due: task.cancel()
\* cancels the future the task waits for, or, when that future is done
\* already, makes the task's next run raise CancelledError.
cancel_task ==
    /\ HeadIs("timer")
    /\ LET c == Head(ready).id IN
        IF timer # "queued" \/ clients[c].pc = "done"
        THEN /\ Ran(<<>>)
             /\ UNCHANGED <<clients, timer>>
        ELSE /\ timer' = "fired"
             /\ IF clients[c].fut = "pending"
                THEN /\ clients' = [clients EXCEPT ![c].fut = "cancelled"]
                     /\ Ran(<<Handle("client", c)>>)
                ELSE /\ clients' = [clients EXCEPT ![c].mustCancel = TRUE]
                     /\ Ran(<<>>)
    /\ UNCHANGED <<state, locked, lockq, condq, sent, decoders, waiters,
                   calls, dispatched, delivered>>

\* ------------------------------------------------------- specification
\* The argument lists a caller hands to await_all_messages and
\* await_any_messages.
CallerNames == { <<>>, <<"a", "b">>, <<"a", "a">>, <<"a", "x">> }

\* main(): the notifier and the monitor, created in this order; or one task
\* that calls a wait primitive.
Programs ==
    { [clients |-> ("notifier" :> NewClient("notifier", <<"a", "b", "c">>))
                    @@ ("monitor" :> NewClient("monitor", <<"a", "b">>)),
       ready |-> <<Handle("client", "notifier"), Handle("client", "monitor")>>] }
    \cup
    { [clients |-> ("caller" :> NewClient(op, names)),
       ready |-> <<Handle("client", "caller")>>] :
        op \in {"all", "any"}, names \in CallerNames }

Init ==
    /\ state = [t \in Topics |-> InitialPayload]
    /\ locked = [t \in Topics |-> FALSE]
    /\ lockq = [t \in Topics |-> <<>>]
    /\ condq = [t \in Topics |-> <<>>]
    /\ \E p \in Programs : clients = p.clients /\ ready = p.ready
    /\ ntodo = 0
    /\ sent = 0
    /\ decoders = <<>>
    /\ waiters = [w \in {} |-> 0]
    /\ calls = [k \in {} |-> 0]
    /\ timer = "idle"
    /\ dispatched = [t \in Topics |-> <<>>]
    /\ delivered = <<>>

Next ==
    \/ run_once
    \/ datagram_received
    \/ protocol_x_decoder
    \/ await_message
    \/ on_completion
    \/ gather_done_callback
    \/ await_all_messages
    \/ await_any_messages
    \/ message_arrival_notifier
    \/ message_monitor
    \/ cancel_task

Spec == Init /\ [][Next]_vars

\* The program as main() starts it.
MainInit == Init /\ "monitor" \in DOMAIN clients

MainNext ==
    \/ run_once
    \/ datagram_received
    \/ protocol_x_decoder
    \/ await_message
    \/ on_completion
    \/ message_arrival_notifier
    \/ message_monitor
    \/ cancel_task

\* run_forever: the loop runs as long as it has a handle to run.
FairSpec == MainInit /\ [][MainNext]_vars /\ WF_vars(MainNext)


\* --------------------------------------------------------------- claims
Returned(w) == waiters[w].pc = "done" /\ waiters[w].outcome = "returned"

Scheduled(k, i) == \E j \in DOMAIN ready : ready[j] = Handle(k, i)

AnyCalls == { k \in DOMAIN calls : calls[k].op = "any" }

AllCalls == { k \in DOMAIN calls : calls[k].op = "all" }

\* A waiter that was registered on its topic when a decoder for the topic
\* ran has been woken by that dispatch: it is scheduled, or has returned.
WokenBySeen ==
    \A w \in DOMAIN waiters :
        waiters[w].saw > 0 =>
            \/ Returned(w)
            \/ waiters[w].notified /\ Scheduled("waiter", w)

\* A waiter that returned saw the payload of the dispatch that woke it, or
\* of a later one.
FreshPayload ==
    \A w \in DOMAIN waiters :
        Returned(w) =>
            /\ waiters[w].saw > 0
            /\ \E i \in waiters[w].saw .. Len(dispatched[waiters[w].name]) :
                    dispatched[waiters[w].name][i] = waiters[w].observed

AllSeenReturned == \A w \in DOMAIN waiters : waiters[w].saw > 0 => Returned(w)

\* C1: no missed wakeup, wake-all.  Every waiter registered on a topic's
\* condition when a decoder for that topic runs is woken by that dispatch,
\* eventually returns, and then finds in state the payload of that dispatch
\* or of a later one; this for any number of waiters at once.
C1_NoMissedWakeup ==
    /\ [](WokenBySeen /\ FreshPayload)
    /\ []<>AllSeenReturned

\* Two waiters of one topic, woken by the same dispatch, have both returned.
C1_Witness ==
    \E w1, w2 \in DOMAIN waiters :
        /\ w1 # w2
        /\ waiters[w1].name = waiters[w2].name
        /\ Returned(w1) /\ Returned(w2)
        /\ waiters[w1].saw = waiters[w2].saw

\* C2: all-wait completeness.  An await_all_messages call has returned only
\* if every topic it names was dispatched after the call began.
C2_AllWaitComplete ==
    \A k \in AllCalls :
        calls[k].status = "returned" =>
            \A i \in DOMAIN calls[k].names :
                LET name == calls[k].names[i] IN
                /\ name \in Topics
                /\ Len(dispatched[name]) > calls[k].began[name]

\* await_all_messages('a', 'b') has returned.
C2_Witness ==
    \E k \in AllCalls :
        /\ calls[k].status = "returned"
        /\ calls[k].names = <<"a", "b">>

\* C3: any-wait inclusiveness.  The topics of a call's waiters that were
\* dispatched before any of the call's waiters ran again are all in the
\* list await_any_messages returns.
C3_AnyWaitInclusive ==
    \A k \in AnyCalls :
        calls[k].status = "returned" => calls[k].tie \subseteq calls[k].result

\* An await_any_messages call returned two topics that were dispatched
\* before either waiter ran again.
C3_Witness ==
    \E k \in AnyCalls :
        /\ calls[k].status = "returned"
        /\ {"a", "b"} \subseteq calls[k].tie
        /\ {"a", "b"} \subseteq calls[k].result

\* C4: no leaked registrations from wait-any.  When await_any_messages has
\* returned, none of the waits it started is still pending.
C4_NoLeakAfterAny ==
    \A k \in AnyCalls :
        calls[k].status = "returned" =>
            \A w \in CallWaiters(k[1], k[2]) : waiters[w].pc = "done"

\* C5: clean cancellation on deadline.  When the monitor has timed out, no
\* wait it started is still pending.
C5_NoLeakAfterTimeout ==
    \A c \in DOMAIN clients :
        clients[c].outcome = "failed" =>
            \A w \in DOMAIN waiters : w[1] = c => waiters[w].pc = "done"

\* C6: timeout exclusivity.  A monitor that has ended has ended with
\* 'CONDITION MET' or with 'CONDITIONS FAILED'.
C6_TimeoutExclusive ==
    \A c \in DOMAIN clients :
        clients[c].op = "monitor" /\ clients[c].pc = "done" =>
            clients[c].outcome \in {"met", "failed"}

UnknownType(m) == m.shape = "obj" /\ m.type \notin Topics

DecodeErrors == {"JSONDecodeError", "KeyError", "ValueError"}

\* C7: unknown type rejection.  A run of the decoder on a message whose type
\* is none of 'a', 'b', 'c' ends in an error, changes no payload and wakes
\* no waiter.
C7_UnknownTypeRejected ==
    [][ (HeadIs("decoder") /\ UnknownType(decoders[Head(ready).id].msg)) =>
            /\ state' = state
            /\ waiters' = waiters
            /\ condq' = condq
            /\ ready' = Tail(ready)
            /\ decoders'[Head(ready).id].outcome \in DecodeErrors ]_vars

\* A message of type 'x' was rejected while a waiter was registered.
C7_Witness ==
    /\ \E n \in DOMAIN decoders :
        /\ UnknownType(decoders[n].msg)
        /\ decoders[n].outcome = "ValueError"
    /\ \E w \in DOMAIN waiters : waiters[w].pc = "waiting"

NamesUnknown(k) == \E i \in DOMAIN calls[k].names : calls[k].names[i] \notin Topics

\* Something in the ready queue moves the call on: a first run of one of
\* its waiters, a done callback of one that failed, or its caller.
MovesOn(k) ==
    \/ Scheduled("client", k[1])
    \/ \E w \in CallWaiters(k[1], k[2]) :
        \/ waiters[w].pc = "created" /\ Scheduled("waiter", w)
        \/ /\ waiters[w].outcome = "KeyError"
           /\ Scheduled("on_completion", w) \/ Scheduled("gather_cb", w)

\* C8: unknown topic fails immediately.  await_message of a name that is no
\* topic never waits and ends with KeyError; a call of await_all_messages
\* or await_any_messages that names one never returns a result and, while
\* it is suspended, never depends on a notification.
C8_UnknownTopicFails ==
    /\ \A w \in DOMAIN waiters :
        waiters[w].name \notin Topics =>
            /\ waiters[w].pc \in {"created", "done"}
            /\ waiters[w].pc = "done" => waiters[w].outcome = "KeyError"
    /\ \A k \in DOMAIN calls :
        NamesUnknown(k) =>
            /\ calls[k].status \in {"active", "error"}
            /\ calls[k].status = "active" => MovesOn(k)
            /\ calls[k].status = "error" => clients[k[1]].outcome = "KeyError"

\* await_any_messages('a', 'x') has failed while its 'a' task still waits.
C8_Witness ==
    \E k \in AnyCalls :
        /\ calls[k].names = <<"a", "x">>
        /\ calls[k].status = "error"
        /\ waiters[<<k[1], k[2], 1>>].pc = "waiting"

Malformed(m) == m.shape # "obj" \/ m.payload.shape # "map"

\* C9: malformed message rejection.  A decoder that has run on a malformed
\* message has ended in an error.
C9_MalformedRejected ==
    \A n \in DOMAIN decoders :
        decoders[n].pc = "done" /\ Malformed(decoders[n].msg) =>
            decoders[n].outcome \in DecodeErrors

Valid(m) == ~Malformed(m) /\ m.type \in Topics

Max(S) == CHOOSE x \in S : \A y \in S : y <= x

\* The payload of the last delivered valid message of type t.
LastValid(t) ==
    LET at == { i \in DOMAIN delivered :
                    Valid(delivered[i]) /\ delivered[i].type = t }
    IN  IF at = {} THEN InitialPayload ELSE delivered[Max(at)].payload

AllDecodersRan ==
    /\ \A n \in DOMAIN decoders : decoders[n].pc = "done"
    /\ \A j \in DOMAIN ready : ready[j].kind # "read"

\* C10: latest payload wins, in delivery order.  Once every decoder task has
\* run, each topic holds the payload of the last delivered valid message of
\* its type.
C10_LatestValidWins ==
    AllDecodersRan => \A t \in Topics : state[t] = LastValid(t)

\* C11: set-and-notify is one uninterrupted step.  Between the runs of the
\* loop's handles no condition's lock is held and no task queues for one: a
\* decoder that reaches `async with cond` finds the lock free and notifies
\* in the run in which it wrote the payload, and no waiter waits for a lock.
C11_SetAndNotifyAtomic ==
    /\ \A t \in Topics : ~locked[t] /\ lockq[t] = <<>>
    /\ \A n \in DOMAIN decoders : decoders[n].pc \in {"created", "done"}
    /\ \A w \in DOMAIN waiters : waiters[w].pc \in {"created", "waiting", "done"}

\* A decoder is about to run for a topic on which a waiter is registered,
\* after an earlier dispatch woke a waiter.
C11_Witness ==
    /\ HeadIs("decoder")
    /\ decoders[Head(ready).id].pc = "created"
    /\ decoders[Head(ready).id].msg.type \in Topics
    /\ condq[decoders[Head(ready).id].msg.type] # <<>>
    /\ \E w \in DOMAIN waiters : waiters[w].saw > 0

\* C12: no already-happened shortcut.  A waiter is notified, and returns,
\* only on a dispatch made while it was registered; one registered after the
\* last dispatch of its topic is not scheduled, whatever the payload is.
C12_NoAlreadyHappened ==
    \A w \in DOMAIN waiters :
        /\ (waiters[w].notified \/ Returned(w)) => waiters[w].saw > 0
        /\ (waiters[w].pc = "waiting" /\ waiters[w].saw = 0) =>
                ~Scheduled("waiter", w)

\* A waiter registered after a dispatch of its topic is suspended, with the
\* topic's payload set and nothing left for the loop to run.
C12_Witness ==
    /\ ready = <<>>
    /\ \E w \in DOMAIN waiters :
        /\ waiters[w].pc = "waiting"
        /\ waiters[w].saw = 0
        /\ Len(dispatched[waiters[w].name]) > 0
        /\ state[waiters[w].name] # InitialPayload

\* The dispatches since the call began are enough for the call to return.
Satisfied(k) ==
    LET since(name) == name \in Topics /\ Len(dispatched[name]) > calls[k].began[name]
    IN  IF calls[k].op = "any"
        THEN \E i \in DOMAIN calls[k].names : since(calls[k].names[i])
        ELSE \A i \in DOMAIN calls[k].names : since(calls[k].names[i])

\* C13: composite waits count every notification since the call began.  When
\* the loop has nothing left to run, no call is still suspended although the
\* topics it waits for were dispatched after it began.
C13_CompositeCountsAll ==
    ready = <<>> =>
        \A k \in DOMAIN calls : calls[k].status = "active" => ~Satisfied(k)

\* C14: dispatch errors are local to one message.  After a decoder task has
\* failed, the run of a decoder on a valid message of a registered type
\* writes the payload, notifies and schedules every waiter registered on
\* the topic, ends without error and leaves no lock held.
C14_ErrorsAreLocal ==
    [][ LET n == Head(ready).id
            m == decoders[n].msg
        IN  ( /\ HeadIs("decoder")
              /\ decoders[n].pc = "created"
              /\ Valid(m)
              /\ \E e \in DOMAIN decoders : decoders[e].outcome \in DecodeErrors )
            =>
            /\ state'[m.type] = m.payload
            /\ decoders'[n].outcome = "ok"
            /\ \A w \in Range(condq[m.type]) :
                    waiters'[w].notified /\ Scheduled("waiter", w)'
            /\ \A t \in Topics : ~locked'[t] /\ lockq'[t] = <<>> ]_vars

\* A waiter returned with the payload of a message that was decoded after
\* an earlier message had failed.
C14_Witness ==
    \E e, n \in DOMAIN decoders :
        /\ e < n
        /\ decoders[e].outcome \in DecodeErrors
        /\ decoders[n].outcome = "ok"
        /\ Valid(decoders[n].msg)
        /\ \E w \in DOMAIN waiters :
            /\ Returned(w)
            /\ waiters[w].name = decoders[n].msg.type
            /\ waiters[w].observed = decoders[n].msg.payload
            /\ waiters[w].saw = Len(dispatched[waiters[w].name])

\* C15: a failed dispatch is surfaced to the party that delivered the
\* message.  A decoder task that failed has a done callback through which
\* datagram_received, or code it handed the task to, learns of the failure.
C15_FailureSurfaced ==
    \A n \in DOMAIN decoders :
        decoders[n].outcome \in DecodeErrors => decoders[n].cbs # <<>>

\* C16: the dispatcher is the sole writer.  Every step that changes a
\* topic's payload is a run of a decoder task, and the new payload is the
\* payload of that task's message.
C16_SoleWriter ==
    [][ state' # state =>
            /\ HeadIs("decoder")
            /\ \E t \in Topics :
                /\ state' = [state EXCEPT ![t] = decoders[Head(ready).id].msg.payload]
                /\ t = decoders[Head(ready).id].msg.type ]_vars

\* A payload was written, a waiter returned, and a consumer went on to its
\* second call.
C16_Witness ==
    /\ \E t \in Topics : state[t] # InitialPayload
    /\ \E w \in DOMAIN waiters : Returned(w)
    /\ \E c \in DOMAIN clients : clients[c].call >= 2

\* C17: no spurious wake of a later wait.  An await_any_messages call that
\* returned, returned a non-empty set of its own arguments, each of them a
\* topic dispatched after the call began.
C17_NoSpuriousWake ==
    \A k \in AnyCalls :
        calls[k].status = "returned" =>
            /\ calls[k].result # {}
            /\ calls[k].result \subseteq Range(calls[k].names)
            /\ \A t \in calls[k].result :
                    t \in Topics /\ Len(dispatched[t]) > calls[k].began[t]

\* A later call returned after a waiter left over from the client's first
\* call had been woken.
C17_Witness ==
    \E k \in AnyCalls :
        /\ k[2] >= 2
        /\ calls[k].status = "returned"
        /\ \E w \in CallWaiters(k[1], 1) :
            /\ Returned(w)
            /\ waiters[w].name \notin calls[<<k[1], 1>>].result

\* C18: a single wait request resolves at most once.  A wait on a topic
\* that has ended has ended in one way, by returning its name (no wait is
\* timed out or cancelled by the program); from then on no step changes
\* how a wait ended or what it saw, and it is never scheduled again.
C18_ResolvesOnce ==
    [][ \A w \in DOMAIN waiters :
            waiters[w].pc = "done" =>
                /\ waiters[w].name \in Topics => waiters[w].outcome = "returned"
                /\ waiters'[w].pc = "done"
                /\ waiters'[w].outcome = waiters[w].outcome
                /\ waiters'[w].observed = waiters[w].observed
                /\ waiters'[w].saw = waiters[w].saw
                /\ ~Scheduled("waiter", w)' ]_vars

\* A wait has returned, and its topic was dispatched again afterwards.
C18_Witness ==
    \E w \in DOMAIN waiters :
        /\ Returned(w)
        /\ Len(dispatched[waiters[w].name]) > waiters[w].saw

\* C19: dispatch touches only its own topic.  A run of a decoder for type T
\* leaves the payload of every other topic as it was, and leaves every
\* waiter registered on another topic's condition registered, unchanged and
\* unscheduled.
C19_OwnTopicOnly ==
    [][ HeadIs("decoder") =>
            \A t \in Topics \ {decoders[Head(ready).id].msg.type} :
                /\ state'[t] = state[t]
                /\ condq'[t] = condq[t]
                /\ \A w \in Range(condq[t]) :
                    /\ waiters'[w] = waiters[w]
                    /\ Scheduled("waiter", w)' = Scheduled("waiter", w) ]_vars

\* A dispatch woke the waiter of its own topic while a waiter of another
\* topic, registered at the time, is still suspended.
C19_Witness ==
    \E w1, w2 \in DOMAIN waiters :
        /\ waiters[w1].name # waiters[w2].name
        /\ w1[1] = w2[1] /\ w1[2] = w2[2]
        /\ Returned(w1)
        /\ waiters[w2].pc = "waiting"
        /\ ~waiters[w2].notified
        /\ ~Scheduled("waiter", w2)

=============================================================================
